---- MODULE Spec2Model ----
(***************************************************************************)
(* The ledger core of paysecond_app: the tables wallet, transaction,       *)
(* failed_transaction, wallet_audit_log, encryption_key and                *)
(* batch_processing with their CHECK constraints, unique indexes, foreign  *)
(* keys and triggers, the stored procedures process_payment and            *)
(* log_failed_transaction, the job scheduler that drives batch_processing  *)
(* and the escalation of failed transactions.                              *)
(*                                                                         *)
(* Sessions run under PostgreSQL's READ COMMITTED isolation: a statement   *)
(* reads the last committed rows plus its own transaction's writes, an     *)
(* UPDATE takes the row's lock until its transaction ends, and a block     *)
(* with an EXCEPTION clause rolls its own writes back before the handler   *)
(* runs.  Amounts are whole currency units.                                *)
(***************************************************************************)
EXTENDS Integers, FiniteSets, Sequences, TLC

\* ------------------------------------------------------------------ bounds
MaxTime     == 2        \* transactions started in one run (the clock's range)
MaxKeys     == 3        \* encryption_key rows ever inserted in one run
MaxOps      == 3        \* statements clients run on the audit log in one run
MaxJobs     == 2        \* batch_processing rows ever inserted in one run
MaxQueued   == 1        \* jobs ever enqueued in one run of the scheduler
MaxClock    == 4        \* the scheduler's clock runs from 1 to MaxClock
MaxFamily   == 3        \* jobs enqueued in one run on a family of jobs
MaxWallets  == 2        \* wallets opened in one run
MaxFailed   == 1        \* failed_transaction rows clients insert in one run

\* ------------------------------------------------------- program constants
TxAmountCeiling   == 10000000      \* chk_transaction_amount_range
Int4Max           == 2147483647    \* the largest INTEGER

NULL == 0               \* SQL NULL, for the nullable ids and timestamps

Sessions   == {1, 2}   \* concurrent database sessions calling process_payment
Wallets    == 1..3
\* a well-formed id that matches no wallet row
MissingWallet == CHOOSE w \in 1..10 : w \notin Wallets
Currencies == {"EUR", "USD"}
Amounts    == {1, 2}   \* the amounts and deltas callers pass
TerminalStatus == {"completed", "failed", "refunded", "cancelled"}

VARIABLES
  wallet,              \* committed rows of table wallet, by id
  transaction,         \* committed rows of table transaction
  failed_transaction,  \* committed rows of table failed_transaction
  wallet_audit_log,    \* committed rows of table wallet_audit_log
  encryption_key,      \* committed rows of table encryption_key
  user,                \* ids of the rows of table "user"
  batch_processing,    \* committed rows of table batch_processing
  pc,                  \* per session: the statement process_payment is at
  call,                \* per session: the procedure's parameters and locals
  dirtyBalance,        \* per session: its uncommitted wallet balances, by wallet id
  dirtyTx,             \* per session: uncommitted transaction rows
  now,                 \* the clock: CURRENT_TIMESTAMP of the next transaction
  nextId,              \* ids handed out so far by gen_random_uuid()
  ret                  \* what the last finished call or statement returned

vars == <<wallet, transaction, failed_transaction, wallet_audit_log, encryption_key,
          user, batch_processing, pc, call, dirtyBalance, dirtyTx, now, nextId, ret>>

\* The tables process_payment and log_failed_transaction never touch.
sideTables == <<encryption_key, user, batch_processing>>

ledgerVars == <<wallet, transaction, failed_transaction, wallet_audit_log,
                pc, call, dirtyBalance, dirtyTx>>

NoCall == [p_sender_wallet_id |-> NULL, p_recipient_wallet_id |-> NULL,
           p_amount |-> 0, p_currency |-> "EUR",
           v_transaction_id |-> NULL, current_timestamp |-> NULL]

NoRet == [op |-> "none", ok |-> TRUE, sqlerrm |-> "",
          wallet |-> NULL, recipient |-> NULL, amount |-> 0, id |-> NULL]

\* --------------------------------------------------------------- table wallet
WalletRow(owner, bal, cur) ==
  [user_id |-> owner, balance |-> bal, currency |-> cur,
   max_balance |-> 2, is_primary |-> TRUE, status |-> "active",
   deleted_at |-> NULL]

InitWallet ==
  (1 :> WalletRow(1, 2, "EUR")) @@ (2 :> WalletRow(2, 1, "EUR")) @@
  (3 :> WalletRow(3, 0, "USD"))

\* chk_wallet_balance_non_negative, and the constraint trigger check_wallet_balance
chk_wallet_balance_unchecked(bal) == TRUE
chk_wallet_balance_non_negative(bal) == bal >= 0

\* The outcome of writing balance bal to a wallet row: "" or the error raised.
\* (The column's NUMERIC(12,2) range ends far above any balance of this model.)
WalletWriteError(bal) ==
  IF ~chk_wallet_balance_non_negative(bal) THEN "chk_wallet_balance_non_negative"
  ELSE ""

\* The row lock: session p may UPDATE wallet w unless another session holds
\* an uncommitted write on it.
LockedByOther(p, w) == \E q \in Sessions \ {p} : w \in DOMAIN dirtyBalance[q]
Locked(w) == \E q \in Sessions : w \in DOMAIN dirtyBalance[q]

\* The balance an UPDATE of session p starts from.
CurrentBalance(p, w) ==
  IF w \in DOMAIN dirtyBalance[p] THEN dirtyBalance[p][w] ELSE wallet[w].balance

NoDirty == [w \in {} |-> 0]

\* dirty with the balance of wallet w set to bal
Write(dirty, w, bal) == [x \in DOMAIN dirty \cup {w} |-> IF x = w THEN bal ELSE dirty[x]]

Init ==
  /\ wallet = InitWallet
  /\ transaction = {}
  /\ failed_transaction = {}
  /\ wallet_audit_log = {}
  /\ encryption_key = {}
  /\ user = {wallet[w].user_id : w \in Wallets}
  /\ batch_processing = {}
  /\ pc = [p \in Sessions |-> "idle"]
  /\ call = [p \in Sessions |-> NoCall]
  /\ dirtyBalance = [p \in Sessions |-> NoDirty]
  /\ dirtyTx = [p \in Sessions |-> {}]
  /\ now = 1
  /\ nextId = 1
  /\ ret = NoRet

\* ---------------------------------------------------------- table transaction
\* chk_no_self_transfer: sender_wallet_id IS DISTINCT FROM recipient_wallet_id
chk_no_self_transfer(s, r) == s # r

\* chk_wallet_ids_for_type
chk_wallet_ids_for_type(type, s, r) ==
  \/ type \in {"payment", "transfer", "withdrawal", "chargeback"} /\ s # NULL
  \/ type \in {"deposit", "payment", "transfer", "refund"} /\ r # NULL
  \/ type \in {"fee_collection", "adjustment"} /\ (s # NULL \/ r # NULL)

\* chk_transaction_amount_range
chk_transaction_amount_range(a) == a > 0 /\ a <= TxAmountCeiling

\* ForeignKey("wallet.id"): a non-NULL reference must match a wallet row
fk_wallet(w) == w = NULL \/ w \in DOMAIN wallet

\* The outcome of INSERT INTO transaction: "" or the constraint violated.
TransactionInsertError(row) ==
  IF ~chk_no_self_transfer(row.sender_wallet_id, row.recipient_wallet_id)
    THEN "chk_no_self_transfer"
  ELSE IF ~chk_wallet_ids_for_type(row.transaction_type, row.sender_wallet_id,
                                   row.recipient_wallet_id)
    THEN "chk_wallet_ids_for_type"
  ELSE IF ~chk_transaction_amount_range(row.amount)
    THEN "chk_transaction_amount_range"
  ELSE IF ~fk_wallet(row.sender_wallet_id) \/ ~fk_wallet(row.recipient_wallet_id)
    THEN "transaction_wallet_id_fkey"
  ELSE ""

\* trg_set_transaction_completed_at (BEFORE UPDATE): the row that is stored
\* when old is updated to new in a transaction whose CURRENT_TIMESTAMP is ts.
set_transaction_completed_at(old, new, ts) ==
  IF new.status \in TerminalStatus /\ old.status \notin TerminalStatus
    THEN [new EXCEPT !.completed_at = ts]
    ELSE new

\* UPDATE transaction SET status = 'completed' WHERE id = v, over the rows given
UpdateCompleted(rows, v, ts) ==
  { IF t.id = v
      THEN set_transaction_completed_at(t, [t EXCEPT !.status = "completed"], ts)
      ELSE t : t \in rows }

\* UPDATE transaction SET status = 'failed', completed_at = CURRENT_TIMESTAMP,
\* failure_reason = SQLERRM WHERE id = v, over the rows given
UpdateFailed(rows, v, ts, errm) ==
  { IF t.id = v
      THEN set_transaction_completed_at(t,
             [t EXCEPT !.status = "failed", !.completed_at = ts,
                       !.failure_reason = errm], ts)
      ELSE t : t \in rows }

\* ------------------------------------------------------------ process_payment
PaymentRet(args, ok, errm) ==
  [op |-> "process_payment", ok |-> ok, sqlerrm |-> errm,
   wallet |-> args.p_sender_wallet_id, recipient |-> args.p_recipient_wallet_id,
   amount |-> args.p_amount, id |-> args.v_transaction_id]

SenderCheckFails_strict(s, a) ==
  \/ s \notin DOMAIN wallet
  \/ wallet[s].balance <= a

\* SELECT balance INTO v_sender_balance FROM wallet WHERE id = p_sender_wallet_id;
\* IF v_sender_balance IS NULL OR v_sender_balance < p_amount THEN RAISE
SenderCheckFails(s, a) ==
  \/ s \notin DOMAIN wallet          \* no row: v_sender_balance IS NULL
  \/ wallet[s].balance < a

\* An error raised inside the inner block.  The block's writes are rolled back
\* to its start, the handler's UPDATE runs on what is then visible, and RAISE
\* hands the error to the caller, whose transaction aborts.
RaiseInBlock(p, args, errm) ==
  LET v == args.v_transaction_id
      visible == transaction                \* the block's INSERT is rolled back
      handled == UpdateFailed(visible, v, args.current_timestamp, errm)
      aborted == handled \ visible          \* the handler's writes, lost with RAISE
  IN /\ transaction' = (visible \cup handled) \ aborted
     /\ pc' = [pc EXCEPT ![p] = "idle"]
     /\ call' = [call EXCEPT ![p] = NoCall]
     /\ dirtyBalance' = [dirtyBalance EXCEPT ![p] = NoDirty]
     /\ dirtyTx' = [dirtyTx EXCEPT ![p] = {}]
     /\ ret' = PaymentRet(args, FALSE, errm)
     /\ UNCHANGED <<wallet, failed_transaction, wallet_audit_log, sideTables>>

\* CALL process_payment(s, r, a, c), up to the INSERT.  The funds check raises
\* outside the inner block: nothing was written and no handler runs.  Then
\* INSERT INTO transaction (...) VALUES ('payment','wallet',...,'pending',...)
\* RETURNING id INTO v_transaction_id.
Begin(p, s, r, a, c) ==
  /\ pc[p] = "idle"
  /\ now <= MaxTime
  /\ now' = now + 1
  /\ LET args == [p_sender_wallet_id |-> s, p_recipient_wallet_id |-> r,
                  p_amount |-> a, p_currency |-> c,
                  v_transaction_id |-> NULL, current_timestamp |-> now]
         row == [id |-> nextId, created_at |-> now,
                 transaction_type |-> "payment",
                 sender_wallet_id |-> s, recipient_wallet_id |-> r,
                 amount |-> a, currency |-> c,
                 status |-> "pending", completed_at |-> NULL,
                 failure_reason |-> "", fraud_flag |-> FALSE]
         err == TransactionInsertError(row)
     IN IF SenderCheckFails(s, a)
          THEN /\ ret' = PaymentRet(args, FALSE,
                                    "Solde insuffisant ou portefeuille introuvable.")
               /\ UNCHANGED <<wallet, transaction, failed_transaction,
                              wallet_audit_log, sideTables, pc, call,
                              dirtyBalance, dirtyTx, nextId>>
          ELSE IF err # ""
            THEN RaiseInBlock(p, args, err) /\ UNCHANGED nextId
            ELSE /\ dirtyTx' = [dirtyTx EXCEPT ![p] = {row}]
                 /\ call' = [call EXCEPT ![p] = [args EXCEPT !.v_transaction_id = nextId]]
                 /\ pc' = [pc EXCEPT ![p] = "debit"]
                 /\ nextId' = nextId + 1
                 /\ UNCHANGED <<wallet, transaction, failed_transaction,
                                wallet_audit_log, sideTables, dirtyBalance, ret>>

\* UPDATE wallet SET balance = balance - p_amount WHERE id = p_sender_wallet_id
Debit(p) ==
  /\ pc[p] = "debit"
  /\ LET w == call[p].p_sender_wallet_id
         bal == CurrentBalance(p, w) - call[p].p_amount
         err == WalletWriteError(bal)
     IN /\ ~LockedByOther(p, w)
        /\ IF err # ""
             THEN RaiseInBlock(p, call[p], err) /\ UNCHANGED now
             ELSE /\ dirtyBalance' = [dirtyBalance EXCEPT ![p] = Write(@, w, bal)]
                  /\ pc' = [pc EXCEPT ![p] = "credit"]
                  /\ UNCHANGED <<wallet, transaction, failed_transaction,
                                 wallet_audit_log, sideTables, call, dirtyTx,
                                 now, ret>>
  /\ UNCHANGED nextId

\* UPDATE wallet SET balance = balance + p_amount WHERE id = p_recipient_wallet_id
\* (no row matches a NULL id: the statement then updates nothing)
Credit(p) ==
  /\ pc[p] = "credit"
  /\ LET w == call[p].p_recipient_wallet_id
     IN IF w \notin DOMAIN wallet
          THEN /\ pc' = [pc EXCEPT ![p] = "complete"]
               /\ UNCHANGED <<wallet, transaction, failed_transaction,
                              wallet_audit_log, sideTables, call, dirtyBalance,
                              dirtyTx, now, ret>>
          ELSE LET bal == CurrentBalance(p, w) + call[p].p_amount
                   err == WalletWriteError(bal)
               IN /\ ~LockedByOther(p, w)
                  /\ IF err # ""
                       THEN RaiseInBlock(p, call[p], err) /\ UNCHANGED now
                       ELSE /\ dirtyBalance' = [dirtyBalance EXCEPT ![p] = Write(@, w, bal)]
                            /\ pc' = [pc EXCEPT ![p] = "complete"]
                            /\ UNCHANGED <<wallet, transaction, failed_transaction,
                                           wallet_audit_log, sideTables, call,
                                           dirtyTx, now, ret>>
  /\ UNCHANGED nextId

\* UPDATE transaction SET status = 'completed' WHERE id = v_transaction_id;
\* the procedure returns and the call's transaction commits.
Complete(p) ==
  /\ pc[p] = "complete"
  /\ LET v == call[p].v_transaction_id
         mine == UpdateCompleted(dirtyTx[p], v, call[p].current_timestamp)
     IN /\ transaction' = transaction \cup mine
        /\ wallet' = [w \in Wallets |->
                        IF w \in DOMAIN dirtyBalance[p]
                          THEN [wallet[w] EXCEPT !.balance = dirtyBalance[p][w]]
                          ELSE wallet[w]]
        /\ ret' = PaymentRet(call[p], TRUE, "")
  /\ pc' = [pc EXCEPT ![p] = "idle"]
  /\ call' = [call EXCEPT ![p] = NoCall]
  /\ dirtyBalance' = [dirtyBalance EXCEPT ![p] = NoDirty]
  /\ dirtyTx' = [dirtyTx EXCEPT ![p] = {}]
  /\ UNCHANGED <<failed_transaction, wallet_audit_log, sideTables, now, nextId>>

\* The row a session's next UPDATE needs, and who holds it.
Target(p) ==
  IF pc[p] = "debit" THEN call[p].p_sender_wallet_id
  ELSE IF pc[p] = "credit" THEN call[p].p_recipient_wallet_id
  ELSE NULL

WaitsFor(p, q) ==
  /\ p # q
  /\ Target(p) \in Wallets
  /\ Target(p) \in DOMAIN dirtyBalance[q]

RECURSIVE Reaches(_, _, _)
Reaches(p, q, n) ==
  \/ WaitsFor(p, q)
  \/ n > 0 /\ \E m \in Sessions : WaitsFor(p, m) /\ Reaches(m, q, n - 1)

Deadlocked(p) == Reaches(p, p, Cardinality(Sessions))

\* The lock manager's deadlock detector cancels one session of a wait cycle:
\* its UPDATE raises deadlock_detected inside the block.
DeadlockAbort(p) ==
  /\ Deadlocked(p)
  /\ RaiseInBlock(p, call[p], "deadlock_detected")
  /\ UNCHANGED <<now, nextId>>

\* ------------------------------------------- a client's UPDATE of one wallet
\* UPDATE wallet SET balance = balance + delta WHERE id = w, in its own
\* transaction: a deposit (delta > 0) or a withdrawal (delta < 0).  The row
\* is written only if the CHECK constraint and the constraint trigger accept it.
UpdateWallet(w, delta) ==
  /\ now <= MaxTime
  /\ now' = now + 1
  /\ ~Locked(w)
  /\ LET bal == wallet[w].balance + delta
         err == WalletWriteError(bal)
     IN /\ wallet' = IF err = "" THEN [wallet EXCEPT ![w].balance = bal] ELSE wallet
        /\ ret' = [op |-> "update_wallet", ok |-> (err = ""), sqlerrm |-> err,
                   wallet |-> w, recipient |-> NULL, amount |-> delta, id |-> NULL]
  /\ UNCHANGED <<transaction, failed_transaction, wallet_audit_log, sideTables,
                 pc, call, dirtyBalance, dirtyTx, nextId>>

\* ------------------------------------------------------ log_failed_transaction
\* UPDATE transaction SET status = 'failed', completed_at = CURRENT_TIMESTAMP,
\* fraud_flag = p_fraud_detected, failure_reason = p_reason WHERE id = v
UpdateLogged(rows, v, ts, fraud, reason) ==
  { IF t.id = v
      THEN set_transaction_completed_at(t,
             [t EXCEPT !.status = "failed", !.completed_at = ts,
                       !.fraud_flag = fraud, !.failure_reason = reason], ts)
      ELSE t : t \in rows }

\* CALL log_failed_transaction(p_transaction_id, p_error_code, p_reason,
\* p_fraud_detected), in its own transaction.
LogFailedTransaction(p_transaction_id, p_fraud_detected) ==
  /\ now <= MaxTime
  /\ now' = now + 1
  /\ IF ~\E t \in transaction : t.id = p_transaction_id
       THEN /\ ret' = [op |-> "log_failed_transaction", ok |-> FALSE,
                       sqlerrm |-> "Transaction invalide", wallet |-> NULL,
                       recipient |-> NULL, amount |-> 0, id |-> p_transaction_id]
            /\ UNCHANGED <<transaction, failed_transaction, nextId>>
       ELSE /\ failed_transaction' = failed_transaction \cup
                 {[id |-> nextId, transaction_id |-> p_transaction_id,
                   error_code |-> "E", reason |-> "p_reason",
                   fraud_detected |-> p_fraud_detected,
                   resolution_status |-> "investigating", resolved_at |-> NULL,
                   escalation_level |-> 0, created_at |-> now]}
            /\ nextId' = nextId + 1
            /\ transaction' = UpdateLogged(transaction, p_transaction_id, now,
                                           p_fraud_detected, "p_reason")
            /\ ret' = [op |-> "log_failed_transaction", ok |-> TRUE,
                       sqlerrm |-> "", wallet |-> NULL, recipient |-> NULL,
                       amount |-> 0, id |-> p_transaction_id]
  /\ UNCHANGED <<wallet, wallet_audit_log, sideTables, pc, call, dirtyBalance,
                 dirtyTx>>

\* ------------------------------------------------------------- specifications
SenderArgs == Wallets \cup {NULL}
RecipientArgs == Wallets \cup {NULL, MissingWallet}
TxArgs == {t.id : t \in transaction} \cup {NULL, nextId}
Deltas == Amounts \cup {-a : a \in Amounts}

\* Sessions call process_payment concurrently, statement by statement.
Next ==
  \/ \E p \in Sessions, s \in SenderArgs, r \in RecipientArgs, a \in Amounts,
       c \in Currencies :
       Begin(p, s, r, a, c)
  \/ \E p \in Sessions : Debit(p)
  \/ \E p \in Sessions : Credit(p)
  \/ \E p \in Sessions : Complete(p)
  \/ \E p \in Sessions : DeadlockAbort(p)
  \/ \E w \in Wallets, d \in Deltas : UpdateWallet(w, d)
  \/ \E v \in TxArgs, f \in {TRUE} : LogFailedTransaction(v, f)

Spec == Init /\ [][Next]_vars

\* One call at a time: a call starts only when no other call is under way.
Quiet == \A p \in Sessions : pc[p] = "idle"

NextSeq ==
  \/ \E p \in Sessions, s \in SenderArgs, r \in RecipientArgs, a \in Amounts,
       c \in Currencies :
       Quiet /\ Begin(p, s, r, a, c)
  \/ \E p \in Sessions : Debit(p)
  \/ \E p \in Sessions : Credit(p)
  \/ \E p \in Sessions : Complete(p)
  \/ \E w \in Wallets, d \in Deltas : Quiet /\ UpdateWallet(w, d)
  \/ \E v \in TxArgs, f \in {TRUE} : Quiet /\ LogFailedTransaction(v, f)

SpecSeq == Init /\ [][NextSeq]_vars

\* UPDATE wallet SET status = st WHERE id = w, in its own transaction
WalletStatus == {"active", "inactive", "frozen"}

SetWalletStatus(w, st) ==
  /\ now <= MaxTime
  /\ now' = now + 1
  /\ ~Locked(w)
  /\ wallet' = [wallet EXCEPT ![w].status = st]
  /\ ret' = [op |-> "set_wallet_status", ok |-> TRUE, sqlerrm |-> "",
             wallet |-> w, recipient |-> NULL, amount |-> 0, id |-> NULL]
  /\ UNCHANGED <<transaction, failed_transaction, wallet_audit_log, sideTables,
                 pc, call, dirtyBalance, dirtyTx, nextId>>

\* One call at a time, on wallets whose status an operator changes.
NextStatus ==
  \/ NextSeq
  \/ \E w \in Wallets, st \in WalletStatus : Quiet /\ SetWalletStatus(w, st)

SpecStatus == Init /\ [][NextStatus]_vars

\* -------------------------------------------------------- table encryption_key
KeyTypes == {"card_data", "personal_data"}
KeyVersions == {1, 2}

KeyIds == {k.id : k \in encryption_key}
KeyRow(id) == CHOOSE k \in encryption_key : k.id = id

\* The active keys of type t among rows.
ActiveKeys(rows, t) == {k \in rows : k.key_type = t /\ k.active}

\* chk_encryption_key_version_positive
chk_encryption_key_version_positive(v) == v > 0

\* idx_encryption_key_active_type_optimized: UNIQUE (key_type) WHERE active
idx_encryption_key_active_type_optimized(rows) ==
  \A k1, k2 \in rows :
    (k1.active /\ k2.active /\ k1.key_type = k2.key_type) => k1.id = k2.id

prevent_key_deactivation_counting_self(rows, old, new) ==
  /\ old.active /\ ~new.active
  /\ Cardinality({k \in rows : k.key_type = old.key_type /\ k.active}) = 0

\* trg_prevent_key_deactivation (BEFORE UPDATE, FOR EACH ROW): TRUE when the
\* update of old to new raises, rows being the table as the trigger reads it.
prevent_key_deactivation(rows, old, new) ==
  /\ old.active /\ ~new.active
  /\ Cardinality({k \in rows : k.key_type = old.key_type /\ k.active
                               /\ k.id # old.id}) = 0

\* trg_rotate_keys (AFTER INSERT, WHEN NEW.active): the rows rotate_encryption_keys
\* updates, and the table after its UPDATE.
RotateTargets(rows, new) ==
  {k \in rows : k.active /\ k.key_type = new.key_type /\ k.id # new.id}

rotate_encryption_keys(rows, new, ts) ==
  { IF k \in RotateTargets(rows, new)
      THEN [k EXCEPT !.active = FALSE, !.rotated_at = ts]
      ELSE k : k \in rows }

KeyRet(op, err, t, a, id) ==
  [op |-> op, ok |-> (err = ""), sqlerrm |-> err, key_type |-> t, active |-> a,
   id |-> id]

\* INSERT INTO encryption_key (key_type, active, key_version, ...), in its own
\* transaction.  The unique index is checked as the row is inserted; the AFTER
\* INSERT trigger runs on the table with the new row in it.
InsertKey(t, a, v) ==
  /\ nextId <= MaxKeys
  /\ LET new == [id |-> nextId, key_type |-> t, active |-> a, key_version |-> v,
                 rotated_at |-> NULL]
         inserted == encryption_key \cup {new}
         rotated == IF a THEN rotate_encryption_keys(inserted, new, now)
                         ELSE inserted
         err == IF ~chk_encryption_key_version_positive(v)
                  THEN "chk_encryption_key_version_positive"
                ELSE IF ~idx_encryption_key_active_type_optimized(inserted)
                  THEN "idx_encryption_key_active_type_optimized"
                ELSE IF a /\ \E k \in RotateTargets(inserted, new) :
                            prevent_key_deactivation(inserted, k,
                                                     [k EXCEPT !.active = FALSE])
                  THEN "prevent_key_deactivation"
                ELSE ""
     IN /\ encryption_key' = IF err = "" THEN rotated ELSE encryption_key
        /\ nextId' = IF err = "" THEN nextId + 1 ELSE nextId
        /\ ret' = KeyRet("insert_key", err, t, a, IF err = "" THEN nextId ELSE NULL)
  /\ UNCHANGED <<ledgerVars, user, batch_processing, now>>

\* UPDATE encryption_key SET active = a WHERE id = id, in its own transaction.
UpdateKey(id, a) ==
  /\ id \in KeyIds
  /\ LET old == KeyRow(id)
         new == [old EXCEPT !.active = a]
         updated == (encryption_key \ {old}) \cup {new}
         err == IF prevent_key_deactivation(encryption_key, old, new)
                  THEN "prevent_key_deactivation"
                ELSE IF ~idx_encryption_key_active_type_optimized(updated)
                  THEN "idx_encryption_key_active_type_optimized"
                ELSE ""
     IN /\ encryption_key' = IF err = "" THEN updated ELSE encryption_key
        /\ ret' = KeyRet("update_key", err, old.key_type, a, id)
  /\ UNCHANGED <<ledgerVars, user, batch_processing, now, nextId>>

\* DELETE FROM encryption_key WHERE id = id, in its own transaction.  The table
\* has no trigger on DELETE; the keys here are keys that no card and no
\* document row references (those references are ON DELETE RESTRICT).
DeleteKey(id) ==
  /\ id \in KeyIds
  /\ encryption_key' = encryption_key \ {KeyRow(id)}
  /\ ret' = KeyRet("delete_key", "", KeyRow(id).key_type, KeyRow(id).active, id)
  /\ UNCHANGED <<ledgerVars, user, batch_processing, now, nextId>>

\* Clients insert, activate, deactivate and delete keys.
NextKeys ==
  \/ \E t \in KeyTypes, a \in BOOLEAN, v \in KeyVersions : InsertKey(t, a, v)
  \/ \E id \in KeyIds, a \in BOOLEAN : UpdateKey(id, a)
  \/ \E id \in KeyIds : DeleteKey(id)

SpecKeys == Init /\ [][NextKeys]_vars

\* ------------------------------------------------------ table wallet_audit_log
\* value::TEXT, as a sequence of characters
DecimalDigit == <<"0", "1", "2", "3", "4", "5", "6", "7", "8", "9">>

RECURSIVE Digits(_)
Digits(n) ==
  IF n < 10 THEN <<DecimalDigit[n + 1]>>
  ELSE Digits(n \div 10) \o <<DecimalDigit[(n % 10) + 1]>>

\* uuid::TEXT has one fixed width for every id
UuidText(id) == <<DecimalDigit[(id \div 10) + 1], DecimalDigit[(id % 10) + 1]>>

\* NUMERIC(12,2)::TEXT: sign, integer digits, point, two decimals
NumericText(b) ==
  (IF b < 0 THEN <<"-">> \o Digits(-b) ELSE Digits(b)) \o <<".", "0", "0">>

\* timestamptz::TEXT, under the session's TimeZone and DateStyle (one setting
\* for every session here)
TimestampText(ts) == Digits(ts)

\* encode(digest(text, 'sha256'), 'hex'): SHA-256 taken as free of collisions,
\* a digest is represented by the text it was computed from
Sha256Hex(txt) == txt

\* NEW.wallet_id::TEXT || NEW.new_balance::TEXT || NEW.changed_at::TEXT, digested
EntryHash(e) ==
  Sha256Hex(UuidText(e.wallet_id) \o NumericText(e.new_balance)
            \o TimestampText(e.changed_at))

NoHash == <<>>          \* entry_hash not supplied (NULL)

\* trg_set_audit_user_id (BEFORE INSERT)
set_audit_user_id(new) ==
  IF new.user_id = NULL
    THEN [new EXCEPT !.user_id = IF new.wallet_id \in DOMAIN wallet
                                   THEN wallet[new.wallet_id].user_id ELSE NULL]
    ELSE new

calculate_audit_fields_keeping_hash(new) ==
  [new EXCEPT !.ip_truncated = IF new.ip_address = NULL THEN NULL
                               ELSE IF new.ip_address = 4 THEN 24 ELSE 64]

\* trg_calculate_audit_fields (BEFORE INSERT).  An inet address is represented
\* by its family (4 or 6), a cidr by its mask length.
calculate_audit_fields(new) ==
  [new EXCEPT !.ip_truncated = IF new.ip_address = NULL THEN NULL
                               ELSE IF new.ip_address = 4 THEN 24 ELSE 64,
              !.entry_hash = EntryHash(new)]

\* trg_check_transaction_exists (constraint trigger AFTER INSERT OR UPDATE,
\* deferred to the commit): TRUE when it does not raise for row new.
check_transaction_exists(new, txs) ==
  new.transaction_id # NULL => \E t \in txs : t.id = new.transaction_id

\* change_amount is GENERATED ALWAYS AS (new_balance - old_balance) STORED
Generated(e) == [e EXCEPT !.change_amount = e.new_balance - e.old_balance]

AuditRet(op, err, id, field) ==
  [op |-> op, ok |-> (err = ""), sqlerrm |-> err, id |-> id, field |-> field]

AuditIds == {e.id : e \in wallet_audit_log}
AuditRow(id) == CHOOSE e \in wallet_audit_log : e.id = id

\* ------------------------------------------ clients' statements on the tables
\* Each statement below is one client statement in its own transaction.
AuditBalances == {1, 10}     \* the balances writers put in audit entries

\* INSERT INTO transaction (transaction_type, sender_wallet_id,
\* recipient_wallet_id, amount, currency) VALUES (type, s, r, 1, 'EUR')
InsertTyped(type, s, r) ==
  /\ now <= MaxOps
  /\ now' = now + 1
  /\ LET row == [id |-> nextId, created_at |-> now,
                 transaction_type |-> type,
                 sender_wallet_id |-> s, recipient_wallet_id |-> r,
                 amount |-> 1, currency |-> "EUR",
                 status |-> "pending", completed_at |-> NULL,
                 failure_reason |-> "", fraud_flag |-> FALSE]
         err == TransactionInsertError(row)
     IN /\ transaction' = IF err = "" THEN transaction \cup {row} ELSE transaction
        /\ nextId' = IF err = "" THEN nextId + 1 ELSE nextId
        /\ ret' = AuditRet("insert_transaction", err, nextId, type)
  /\ UNCHANGED <<wallet, failed_transaction, wallet_audit_log, sideTables,
                 pc, call, dirtyBalance, dirtyTx>>

\* ... VALUES ('payment', s, r, 1, 'EUR')
InsertTransaction(s, r) == InsertTyped("payment", s, r)

\* DELETE FROM transaction WHERE id = v.  No foreign key references the table
\* from wallet_audit_log or failed_transaction.
DeleteTransaction(v) ==
  /\ now <= MaxOps
  /\ now' = now + 1
  /\ \E t \in transaction : t.id = v
  /\ transaction' = {t \in transaction : t.id # v}
  /\ ret' = AuditRet("delete_transaction", "", v, "")
  /\ UNCHANGED <<wallet, failed_transaction, wallet_audit_log, sideTables,
                 pc, call, dirtyBalance, dirtyTx, nextId>>

\* INSERT INTO wallet_audit_log (wallet_id, user_id, old_balance, new_balance,
\* transaction_id, ip_address, entry_hash) VALUES (w, u, ob, nb, tx, ip, h);
\* changed_at takes its default.  The BEFORE INSERT triggers run in the order
\* of their names.
InsertAudit(w, u, ob, nb, tx, ip, h) ==
  /\ now <= MaxOps
  /\ now' = now + 1
  /\ LET new == [id |-> nextId, wallet_id |-> w, user_id |-> u,
                 old_balance |-> ob, new_balance |-> nb, change_amount |-> 0,
                 transaction_id |-> tx, changed_at |-> now,
                 ip_address |-> ip, ip_truncated |-> NULL, entry_hash |-> h]
         row == Generated(set_audit_user_id(calculate_audit_fields(new)))
         err == IF w \notin DOMAIN wallet THEN "wallet_audit_log_wallet_id_fkey"
                ELSE IF u # NULL /\ u \notin user
                  THEN "wallet_audit_log_user_id_fkey"
                ELSE IF ~check_transaction_exists(row, transaction)
                  THEN "Transaction invalide"
                ELSE ""
     IN /\ wallet_audit_log' = IF err = "" THEN wallet_audit_log \cup {row}
                                           ELSE wallet_audit_log
        /\ nextId' = IF err = "" THEN nextId + 1 ELSE nextId
        /\ ret' = AuditRet("insert_audit", err, nextId, "")
  /\ UNCHANGED <<wallet, transaction, failed_transaction, sideTables,
                 pc, call, dirtyBalance, dirtyTx>>

\* UPDATE wallet_audit_log SET f = v WHERE id = id.  The table has no BEFORE
\* UPDATE trigger: entry_hash and ip_truncated stay as they are.
UpdateAudit(id, f, v) ==
  /\ now <= MaxOps
  /\ now' = now + 1
  /\ id \in AuditIds
  /\ LET old == AuditRow(id)
         new == Generated([old EXCEPT ![f] = v])
         err == IF new.wallet_id \notin DOMAIN wallet
                  THEN "wallet_audit_log_wallet_id_fkey"
                ELSE IF new.user_id # NULL /\ new.user_id \notin user
                  THEN "wallet_audit_log_user_id_fkey"
                ELSE IF ~check_transaction_exists(new, transaction)
                  THEN "Transaction invalide"
                ELSE ""
     IN /\ wallet_audit_log' = IF err = "" THEN (wallet_audit_log \ {old}) \cup {new}
                                           ELSE wallet_audit_log
        /\ ret' = AuditRet("update_audit", err, id, f)
  /\ UNCHANGED <<wallet, transaction, failed_transaction, sideTables,
                 pc, call, dirtyBalance, dirtyTx, nextId>>

\* DELETE FROM wallet_audit_log WHERE id = id.  The table has no trigger on
\* DELETE.
DeleteAudit(id) ==
  /\ now <= MaxOps
  /\ now' = now + 1
  /\ id \in AuditIds
  /\ wallet_audit_log' = wallet_audit_log \ {AuditRow(id)}
  /\ ret' = AuditRet("delete_audit", "", id, "")
  /\ UNCHANGED <<wallet, transaction, failed_transaction, sideTables,
                 pc, call, dirtyBalance, dirtyTx, nextId>>

\* ON DELETE SET NULL of transaction.sender_wallet_id / recipient_wallet_id
\* for the wallets ws: the referencing rows as the referential action's UPDATE
\* leaves them.
WalletRefsNulled(ws) ==
  { [t EXCEPT !.sender_wallet_id = IF @ \in ws THEN NULL ELSE @,
              !.recipient_wallet_id = IF @ \in ws THEN NULL ELSE @]
    : t \in transaction }

\* The outcome of deleting the wallets ws: "" or the constraint that the
\* referential action's UPDATE of a transaction row violates.
WalletDeleteError(ws) ==
  IF \E t \in WalletRefsNulled(ws) \ transaction : TransactionInsertError(t) # ""
    THEN LET t == CHOOSE x \in WalletRefsNulled(ws) \ transaction :
                    TransactionInsertError(x) # ""
         IN TransactionInsertError(t)
    ELSE ""

\* DELETE FROM wallet WHERE id = w: wallet_audit_log.wallet_id is ON DELETE
\* CASCADE, the transaction's wallet references are ON DELETE SET NULL.
DeleteWallet(w) ==
  /\ now <= MaxOps
  /\ now' = now + 1
  /\ w \in DOMAIN wallet
  /\ ~Locked(w)
  /\ LET err == WalletDeleteError({w})
     IN /\ IF err = ""
             THEN /\ wallet' = [x \in DOMAIN wallet \ {w} |-> wallet[x]]
                  /\ transaction' = WalletRefsNulled({w})
                  /\ wallet_audit_log' = {e \in wallet_audit_log : e.wallet_id # w}
             ELSE UNCHANGED <<wallet, transaction, wallet_audit_log>>
        /\ ret' = AuditRet("delete_wallet", err, w, "")
  /\ UNCHANGED <<failed_transaction, sideTables, pc, call, dirtyBalance, dirtyTx,
                 nextId>>

\* UPDATE wallet SET deleted_at = CURRENT_TIMESTAMP WHERE id = w (soft delete)
SoftDeleteWallet(w) ==
  /\ now <= MaxOps
  /\ now' = now + 1
  /\ w \in DOMAIN wallet
  /\ ~Locked(w)
  /\ wallet' = [wallet EXCEPT ![w].deleted_at = now]
  /\ ret' = AuditRet("soft_delete_wallet", "", w, "")
  /\ UNCHANGED <<transaction, failed_transaction, wallet_audit_log, sideTables,
                 pc, call, dirtyBalance, dirtyTx, nextId>>

\* DELETE FROM "user" WHERE id = u: wallet.user_id is ON DELETE CASCADE (and
\* the wallets' deletion acts as above), wallet_audit_log.user_id is ON DELETE
\* SET NULL, an UPDATE that fires trg_check_transaction_exists.
DeleteUser(u) ==
  /\ now <= MaxOps
  /\ now' = now + 1
  /\ u \in user
  /\ LET ws == {w \in DOMAIN wallet : wallet[w].user_id = u}
         kept == {e \in wallet_audit_log : e.wallet_id \notin ws}
         nulled == {e \in kept : e.user_id = u}
         err == IF WalletDeleteError(ws) # "" THEN WalletDeleteError(ws)
                ELSE IF \E e \in nulled :
                          ~check_transaction_exists(e, WalletRefsNulled(ws))
                  THEN "Transaction invalide"
                ELSE ""
     IN /\ \A w \in ws : ~Locked(w)
        /\ IF err = ""
             THEN /\ user' = user \ {u}
                  /\ wallet' = [x \in DOMAIN wallet \ ws |-> wallet[x]]
                  /\ transaction' = WalletRefsNulled(ws)
                  /\ wallet_audit_log' =
                       {IF e \in nulled THEN [e EXCEPT !.user_id = NULL] ELSE e
                          : e \in kept}
             ELSE UNCHANGED <<user, wallet, transaction, wallet_audit_log>>
        /\ ret' = AuditRet("delete_user", err, u, "")
  /\ UNCHANGED <<failed_transaction, encryption_key, batch_processing, pc, call,
                 dirtyBalance, dirtyTx, nextId>>

\* What a client may write into a column of an audit entry.
AuditColumns == {"wallet_id", "user_id", "old_balance", "new_balance",
                 "transaction_id", "changed_at", "ip_address"}
AuditValues(f) ==
  IF f = "wallet_id" THEN DOMAIN wallet
  ELSE IF f = "user_id" THEN user \cup {NULL}
  ELSE IF f \in {"old_balance", "new_balance"} THEN AuditBalances
  ELSE IF f = "transaction_id" THEN {t.id : t \in transaction} \cup {NULL}
  ELSE IF f = "changed_at" THEN {now}
  ELSE {NULL, 6}

\* Clients write the audit log and remove what it refers to.
NextAudit ==
  \/ \E s \in {1}, r \in {2, NULL} : InsertTransaction(s, r)
  \/ \E v \in TxArgs : DeleteTransaction(v)
  \/ \E w \in {1, 2, MissingWallet}, u \in {NULL, 3}, ob \in {1},
       nb \in AuditBalances, tx \in TxArgs, ip \in {4},
       h \in {NoHash} :
       InsertAudit(w, u, ob, nb, tx, ip, h)
  \/ \E w \in {1, 2} : DeleteWallet(w)
  \/ \E w \in {1} : SoftDeleteWallet(w)
  \/ \E u \in user : DeleteUser(u)
  \/ \E id \in AuditIds, f \in AuditColumns : \E v \in AuditValues(f) :
       UpdateAudit(id, f, v)
  \/ \E id \in AuditIds : UpdateAudit(id, "entry_hash", NoHash)
  \/ \E id \in AuditIds : DeleteAudit(id)

SpecAudit == Init /\ [][NextAudit]_vars

\* Clients insert transactions of every type and delete wallets.
TransactionType == {"payment", "refund", "chargeback", "withdrawal", "deposit",
                    "transfer", "fee_collection", "adjustment"}

NextTypes ==
  \/ \E type \in TransactionType, s \in {NULL, 1}, r \in {NULL, 1, 2} :
       InsertTyped(type, s, r)
  \/ \E w \in {1, 2} : DeleteWallet(w)

SpecTypes == Init /\ [][NextTypes]_vars

\* ------------------------------------------------------ table batch_processing
JobStatus == {"pending", "running", "completed", "failed", "retrying", "cancelled"}

JobIds == {j.id : j \in batch_processing}
JobRow(id) == CHOOSE j \in batch_processing : j.id = id

\* a / b on PostgreSQL integers, b > 0: the quotient is rounded toward zero
IntegerDivide(a, b) == IF a >= 0 THEN a \div b ELSE -((-a) \div b)

\* INTEGER arithmetic raises "integer out of range" beyond 32 bits
MultiplyOverflows(a, k) == a > Int4Max \div k \/ a < -(Int4Max \div k)

update_batch_progress_keeping_supplied(new) == new

\* trg_update_batch_progress (BEFORE INSERT OR UPDATE, FOR EACH ROW).  A NULL
\* total_items is written 0 here: neither is > 0.
update_batch_progress(new) ==
  IF new.total_items > 0 /\ ~MultiplyOverflows(new.processed_items, 100)
    THEN [new EXCEPT !.progress_percentage =
                        IntegerDivide(new.processed_items * 100, new.total_items)]
    ELSE new

\* The CHECK constraints of the table
chk_batch_status(j) == j.status \in JobStatus
chk_batch_progress_percentage(j) ==
  j.progress_percentage >= 0 /\ j.progress_percentage <= 100
chk_batch_priority(j) == j.priority >= 1 /\ j.priority <= 5
chk_batch_max_retry_nonneg(j) == j.max_retry >= 0

\* The outcome of writing row new (as the writer gave it) to the table: "" or
\* the error raised.
BatchWriteError(new) ==
  IF new.total_items > 0 /\ MultiplyOverflows(new.processed_items, 100)
    THEN "integer out of range"
  ELSE IF ~chk_batch_status(update_batch_progress(new)) THEN "chk_batch_status"
  ELSE IF ~chk_batch_progress_percentage(update_batch_progress(new))
    THEN "chk_batch_progress_percentage"
  ELSE IF ~chk_batch_priority(update_batch_progress(new)) THEN "chk_batch_priority"
  ELSE IF ~chk_batch_max_retry_nonneg(update_batch_progress(new))
    THEN "chk_batch_max_retry_nonneg"
  ELSE IF new.parent_job_id # NULL /\ new.parent_job_id \notin JobIds
    THEN "batch_processing_parent_job_id_fkey"
  ELSE ""

BatchRet(op, err, id) == [op |-> op, ok |-> (err = ""), sqlerrm |-> err, id |-> id]

\* The row INSERT INTO batch_processing (job_type, scheduled_at, ...) gives
\* when the other columns take their server defaults.
NewJob(id, at, prio, retries, parent) ==
  [id |-> id, status |-> "pending", scheduled_at |-> at, started_at |-> NULL,
   completed_at |-> NULL, retry_count |-> 0, last_error |-> "",
   progress_percentage |-> 0, next_retry_at |-> NULL, total_items |-> NULL,
   processed_items |-> 0, priority |-> prio, max_retry |-> retries,
   parent_job_id |-> parent]

\* The rows after row old is replaced by new as written through the trigger
\* (old = new for an INSERT of new).
JobWritten(old, new) ==
  IF BatchWriteError(new) = ""
    THEN (batch_processing \ {old}) \cup {update_batch_progress(new)}
    ELSE batch_processing

\* INSERT INTO batch_processing (..., total_items, processed_items,
\* progress_percentage) VALUES (..., total, processed, progress)
InsertJob(total, processed, progress) ==
  /\ nextId <= MaxJobs
  /\ LET new == [NewJob(nextId, now, 1, 3, NULL) EXCEPT
                   !.total_items = total, !.processed_items = processed,
                   !.progress_percentage = progress]
         err == BatchWriteError(new)
     IN /\ batch_processing' = JobWritten(new, new)
        /\ nextId' = IF err = "" THEN nextId + 1 ELSE nextId
        /\ ret' = BatchRet("insert_job", err, nextId)
  /\ UNCHANGED <<ledgerVars, encryption_key, user, now>>

\* UPDATE batch_processing SET f = v WHERE id = id
UpdateJob(id, f, v) ==
  /\ id \in JobIds
  /\ LET old == JobRow(id)
         new == [old EXCEPT ![f] = v]
     IN /\ batch_processing' = JobWritten(old, new)
        /\ ret' = BatchRet("update_job", BatchWriteError(new), id)
  /\ UNCHANGED <<ledgerVars, encryption_key, user, now, nextId>>

\* What writers put in the three progress columns.
TotalItems == {NULL, 3, 200}
ProcessedItems == {-1, 2, 4, Int4Max}
ProgressSupplied == {50, 101}
ProgressValues(f) ==
  IF f = "total_items" THEN TotalItems
  ELSE IF f = "processed_items" THEN ProcessedItems
  ELSE ProgressSupplied

\* Clients insert jobs and update their progress columns.
NextBatch ==
  \/ \E total \in TotalItems, processed \in ProcessedItems,
       progress \in ProgressSupplied :
       InsertJob(total, processed, progress)
  \/ \E id \in JobIds,
       f \in {"total_items", "processed_items", "progress_percentage"} :
       \E v \in ProgressValues(f) : UpdateJob(id, f, v)

SpecBatch == Init /\ [][NextBatch]_vars

\* ----------------------------------------------------------- the job scheduler
\* The scheduler that drives batch_processing rows through their lifecycle;
\* each of its writes is an INSERT or UPDATE of the table above.

Priorities == {1, 2}
MaxRetries == {0, 1, 3}

RECURSIVE PowerOfTwo(_)
PowerOfTwo(n) == IF n = 0 THEN 1 ELSE 2 * PowerOfTwo(n - 1)

\* exponential backoff: the delay before the retry that follows failure n
Backoff(n) == PowerOfTwo(n - 1)

\* enqueue(jobType, scheduledAt, parameters, priority, maxRetry, parentJobId)
Enqueue(prio, retries, parent) ==
  /\ LET new == NewJob(nextId, now, prio, retries, parent)
         err == BatchWriteError(new)
     IN /\ batch_processing' = JobWritten(new, new)
        /\ nextId' = IF err = "" THEN nextId + 1 ELSE nextId
        /\ ret' = BatchRet("enqueue", err, nextId)
  /\ UNCHANGED <<ledgerVars, encryption_key, user, now>>

\* Time passes between two transactions: CURRENT_TIMESTAMP moves on.
Tick ==
  /\ now < MaxClock
  /\ now' = now + 1
  /\ UNCHANGED <<ledgerVars, sideTables, nextId, ret>>

\* The jobs the dispatch loop selects from.
Dispatchable(j) ==
  \/ j.status = "pending" /\ j.scheduled_at <= now
  \/ j.status = "retrying" /\ j.next_retry_at <= now

\* priority descending, then scheduled_at ascending
DispatchedBefore(i, j) ==
  \/ i.priority > j.priority
  \/ i.priority = j.priority /\ i.scheduled_at < j.scheduled_at

\* The dispatch loop hands the first selected job to a worker.
Dispatch(id) ==
  /\ id \in JobIds
  /\ Dispatchable(JobRow(id))
  /\ \A i \in batch_processing : Dispatchable(i) => ~DispatchedBefore(i, JobRow(id))
  /\ LET old == JobRow(id)
         new == [old EXCEPT !.status = "running", !.started_at = now]
     IN /\ batch_processing' = JobWritten(old, new)
        /\ ret' = BatchRet("dispatch", BatchWriteError(new), id)
  /\ UNCHANGED <<ledgerVars, encryption_key, user, now, nextId>>

\* The handler of a running job returned: completed, completed_at stamped,
\* progress forced to 100.
JobSucceeds(id) ==
  /\ id \in JobIds
  /\ JobRow(id).status = "running"
  /\ LET old == JobRow(id)
         new == [old EXCEPT !.status = "completed", !.completed_at = now,
                            !.progress_percentage = 100]
     IN /\ batch_processing' = JobWritten(old, new)
        /\ ret' = BatchRet("job_succeeds", BatchWriteError(new), id)
  /\ UNCHANGED <<ledgerVars, encryption_key, user, now, nextId>>

\* The row of a job after a failed run at time ts.
FailedRun_retrying_at_limit(old, ts) ==
  LET n == old.retry_count + 1
  IN IF n <= old.max_retry
       THEN [old EXCEPT !.retry_count = n, !.status = "retrying",
                        !.next_retry_at = ts + Backoff(n), !.last_error = "error"]
       ELSE [old EXCEPT !.retry_count = n, !.status = "failed",
                        !.next_retry_at = NULL, !.last_error = "error"]

FailedRun(old, ts) ==
  LET n == old.retry_count + 1
  IN IF n < old.max_retry
       THEN [old EXCEPT !.retry_count = n, !.status = "retrying",
                        !.next_retry_at = ts + Backoff(n), !.last_error = "error"]
       ELSE [old EXCEPT !.retry_count = n, !.status = "failed",
                        !.next_retry_at = NULL, !.last_error = "error"]

\* The handler of a running job failed.
JobFails(id) ==
  /\ id \in JobIds
  /\ JobRow(id).status = "running"
  /\ LET old == JobRow(id)
         new == FailedRun(old, now)
     IN /\ batch_processing' = JobWritten(old, new)
        /\ ret' = BatchRet("job_fails", BatchWriteError(new), id)
  /\ UNCHANGED <<ledgerVars, encryption_key, user, now, nextId>>

\* The rows after cancel(id) of a job that may be cancelled: the job and its
\* children by parent_job_id, each if pending or retrying, become cancelled.
Cancelled_whatever_status(rows, id) ==
  { IF j.id = id \/ j.parent_job_id = id
      THEN update_batch_progress([j EXCEPT !.status = "cancelled"])
      ELSE j : j \in rows }

Cancelled(rows, id) ==
  { IF /\ j.id = id \/ j.parent_job_id = id
       /\ j.status \in {"pending", "retrying"}
      THEN update_batch_progress([j EXCEPT !.status = "cancelled"])
      ELSE j : j \in rows }

\* a job may be cancelled only while pending or retrying
Cancellable(j) == j.status \in {"pending", "retrying"}

\* cancel(id): refused for a job that may not be cancelled, which is left as
\* it is.
CancelJob(id) ==
  /\ id \in JobIds
  /\ IF Cancellable(JobRow(id))
       THEN /\ batch_processing' = Cancelled(batch_processing, id)
            /\ ret' = BatchRet("cancel", "", id)
       ELSE /\ batch_processing' = batch_processing
            /\ ret' = BatchRet("cancel", "job is not pending or retrying", id)
  /\ UNCHANGED <<ledgerVars, encryption_key, user, now, nextId>>

NextScheduler ==
  \/ \E prio \in Priorities, retries \in MaxRetries, parent \in JobIds \cup {NULL} :
       nextId <= MaxQueued /\ Enqueue(prio, retries, parent)
  \/ Tick
  \/ \E id \in JobIds : Dispatch(id)
  \/ \E id \in JobIds : JobSucceeds(id)
  \/ \E id \in JobIds : JobFails(id)
  \/ \E id \in JobIds : Cancellable(JobRow(id)) /\ CancelJob(id)

SpecScheduler == Init /\ [][NextScheduler]_vars

\* The scheduler working on a family of jobs: a job and the sub-jobs chained
\* to it by parent_job_id, all of priority 1 and max_retry 2, which callers
\* cancel at any moment of their lifecycle, within one polling interval (a
\* retrying job is not yet due again).
NextFamily ==
  \/ \E parent \in JobIds \cup {NULL} :
       nextId <= MaxFamily /\ Enqueue(1, 2, parent)
  \/ \E id \in JobIds : Dispatch(id)
  \/ \E id \in JobIds : JobSucceeds(id)
  \/ \E id \in JobIds : JobFails(id)
  \/ \E id \in JobIds : CancelJob(id)

SpecFamily == Init /\ [][NextFamily]_vars

\* The scheduler running jobs whose handlers report their progress by writing
\* total_items and processed_items.
NextProgress ==
  \/ \E total \in TotalItems, processed \in {0}, progress \in {0} :
       InsertJob(total, processed, progress)
  \/ \E id \in JobIds, f \in {"total_items", "processed_items"} :
       \E v \in ProgressValues(f) : UpdateJob(id, f, v)
  \/ \E id \in JobIds : Dispatch(id)
  \/ \E id \in JobIds : JobSucceeds(id)

SpecProgress == Init /\ [][NextProgress]_vars

\* ---------------------------------------------------- table failed_transaction
ResolutionStatus == {"investigating", "resolved", "denied", "pending_review",
                     "escalated"}

FailedIds == {f.id : f \in failed_transaction}
FailedRow(id) == CHOOSE f \in failed_transaction : f.id = id

\* trg_set_resolved_at_failed_transaction (BEFORE UPDATE, FOR EACH ROW): the
\* row stored when old is updated to new at CURRENT_TIMESTAMP ts.
set_resolved_at_failed_transaction(old, new, ts) ==
  IF new.resolution_status = "resolved" /\ old.resolution_status # "resolved"
    THEN [new EXCEPT !.resolved_at = ts]
    ELSE new

\* The CHECK constraints of the table
chk_failed_transaction_resolution_status(f) ==
  f.resolution_status \in ResolutionStatus

chk_failed_transaction_escalation_level_unchecked(f) == TRUE

chk_failed_transaction_escalation_level(f) ==
  f.escalation_level >= 0 /\ f.escalation_level <= 5

\* The outcome of writing row new to the table: "" or the error raised, the
\* deferred trg_check_transaction_exists running at the commit.
FailedWriteError(new) ==
  IF ~chk_failed_transaction_resolution_status(new)
    THEN "chk_failed_transaction_resolution_status"
  ELSE IF ~chk_failed_transaction_escalation_level(new)
    THEN "chk_failed_transaction_escalation_level"
  ELSE IF ~check_transaction_exists(new, transaction) THEN "Transaction invalide"
  ELSE ""

FailedRet(op, err, id) == [op |-> op, ok |-> (err = ""), sqlerrm |-> err, id |-> id]

\* INSERT INTO failed_transaction (transaction_id, error_code, reason,
\* escalation_level) VALUES (tx, 'E', 'reason', level), in its own transaction
InsertFailed(tx, level) ==
  /\ LET new == [id |-> nextId, transaction_id |-> tx,
                 error_code |-> "E", reason |-> "reason",
                 fraud_detected |-> FALSE,
                 resolution_status |-> "investigating", resolved_at |-> NULL,
                 escalation_level |-> level, created_at |-> now]
         err == FailedWriteError(new)
     IN /\ failed_transaction' = IF err = "" THEN failed_transaction \cup {new}
                                             ELSE failed_transaction
        /\ nextId' = IF err = "" THEN nextId + 1 ELSE nextId
        /\ ret' = FailedRet("insert_failed", err, nextId)
  /\ UNCHANGED <<wallet, transaction, wallet_audit_log, sideTables, pc, call,
                 dirtyBalance, dirtyTx, now>>

\* UPDATE failed_transaction SET f = v WHERE id = id, in its own transaction
\* whose CURRENT_TIMESTAMP is now.
UpdateFailedTransaction(op, id, f, v) ==
  /\ id \in FailedIds
  /\ LET old == FailedRow(id)
         new == set_resolved_at_failed_transaction(old, [old EXCEPT ![f] = v], now)
         err == FailedWriteError(new)
     IN /\ failed_transaction' = IF err = "" THEN (failed_transaction \ {old}) \cup {new}
                                             ELSE failed_transaction
        /\ ret' = FailedRet(op, err, id)
  /\ UNCHANGED <<wallet, transaction, wallet_audit_log, sideTables, pc, call,
                 dirtyBalance, dirtyTx, now, nextId>>

\* resolveFailedTransaction and the other moves of the resolution lifecycle
SetResolutionStatus(id, st) ==
  UpdateFailedTransaction("set_resolution_status", id, "resolution_status", st)

\* A client's UPDATE of escalation_level
SetEscalationLevel(id, level) ==
  UpdateFailedTransaction("set_escalation_level", id, "escalation_level", level)

\* escalate(id): escalation_level + 1, written through the table's constraints
Escalate(id) ==
  /\ id \in FailedIds
  /\ UpdateFailedTransaction("escalate", id, "escalation_level",
                             FailedRow(id).escalation_level + 1)

\* What writers put in escalation_level.
EscalationLevels == {-1, 0, 4, 6}

\* Operators and automation record failures and drive them through
\* resolution and escalation, within one instant of the clock.
NextEscalation ==
  \/ \E tx \in TxArgs, level \in EscalationLevels :
       nextId <= MaxFailed /\ InsertFailed(tx, level)
  \/ \E id \in FailedIds, st \in ResolutionStatus \cup {"closed"} :
       SetResolutionStatus(id, st)
  \/ \E id \in FailedIds, level \in EscalationLevels : SetEscalationLevel(id, level)
  \/ \E id \in FailedIds : Escalate(id)

SpecEscalation == Init /\ [][NextEscalation]_vars

\* The same, over time.
NextFailed ==
  \/ Tick
  \/ NextEscalation

SpecFailed == Init /\ [][NextFailed]_vars

\* ------------------------------------------------- clients' statements on wallet
\* idx_wallet_user_currency: UNIQUE (user_id, currency)
idx_wallet_user_currency(rows) ==
  \A w1, w2 \in DOMAIN rows :
    (rows[w1].user_id = rows[w2].user_id /\ rows[w1].currency = rows[w2].currency)
      => w1 = w2

WalletRet(op, err, id, owner, cur) ==
  [op |-> op, ok |-> (err = ""), sqlerrm |-> err, id |-> id, owner |-> owner,
   currency |-> cur]

\* the id gen_random_uuid() gives the next wallet
NewWalletId == 10 + nextId

\* open(owner, currency): INSERT INTO wallet (user_id, currency) VALUES
\* (owner, cur), the other columns taking their server defaults
OpenWallet(owner, cur) ==
  /\ LET id == NewWalletId
         inserted == (id :> WalletRow(owner, 0, cur)) @@ wallet
         err == IF owner = NULL THEN "null value in column user_id"
                ELSE IF owner \notin user THEN "wallet_user_id_fkey"
                ELSE IF ~idx_wallet_user_currency(inserted)
                  THEN "idx_wallet_user_currency"
                ELSE ""
     IN /\ wallet' = IF err = "" THEN inserted ELSE wallet
        /\ nextId' = IF err = "" THEN nextId + 1 ELSE nextId
        /\ ret' = WalletRet("open_wallet", err, id, owner, cur)
  /\ UNCHANGED <<transaction, failed_transaction, wallet_audit_log, sideTables,
                 pc, call, dirtyBalance, dirtyTx, now>>

\* UPDATE wallet SET is_primary = b WHERE id = w.  The table has no trigger
\* and no index on is_primary.
SetIsPrimary(w, b) ==
  /\ w \in DOMAIN wallet
  /\ ~Locked(w)
  /\ wallet' = [wallet EXCEPT ![w].is_primary = b]
  /\ ret' = WalletRet("set_is_primary", "", w, wallet[w].user_id, wallet[w].currency)
  /\ UNCHANGED <<transaction, failed_transaction, wallet_audit_log, sideTables,
                 pc, call, dirtyBalance, dirtyTx, now, nextId>>

\* Owners open wallets, choose their primary one and close (soft-delete) them.
NextWallets ==
  \/ \E owner \in user \cup {NULL}, cur \in Currencies :
       nextId <= MaxWallets /\ OpenWallet(owner, cur)
  \/ \E w \in DOMAIN wallet, b \in BOOLEAN : SetIsPrimary(w, b)
  \/ \E w \in DOMAIN wallet : SoftDeleteWallet(w)

SpecWallets == Init /\ [][NextWallets]_vars

\* ===================================================================== claims
RECURSIVE SumOver(_, _)
SumOver(ws, c) ==
  IF ws = {} THEN 0
  ELSE LET w == CHOOSE x \in ws : TRUE
       IN (IF wallet[w].currency = c THEN wallet[w].balance ELSE 0)
          + SumOver(ws \ {w}, c)

\* The total of the committed balances of currency c.
TotalBalance(c) == SumOver(Wallets, c)

\* This step is a call of process_payment returning with an error: at once,
\* or from a later statement.
PaymentRaises ==
  /\ ret'.op = "process_payment" /\ ~ret'.ok
  /\ \/ now' # now /\ pc' = pc
     \/ \E p \in Sessions : pc[p] # "idle" /\ pc'[p] = "idle"

\* This step is session p's call of process_payment returning normally.
PaymentReturns(p) == pc[p] = "complete" /\ pc'[p] = "idle"

\* This step is a client's UPDATE of wallet ret'.wallet by ret'.amount.
WalletUpdateStep == ret'.op = "update_wallet" /\ now' # now /\ pc' = pc

AuditEntriesOf(v) == {e \in wallet_audit_log : e.transaction_id = v}

\* C1: in every reachable state every wallet's balance is >= 0, and a step
\* that would take a balance below zero (a client's UPDATE, or a transfer's
\* debit, also one that passed its funds check before a concurrent transfer
\* took the money) is rejected and changes no balance.
C1_BalanceNeverNegative ==
  /\ [](\A w \in Wallets : wallet[w].balance >= 0)
  /\ [][/\ (WalletUpdateStep /\ wallet[ret'.wallet].balance + ret'.amount < 0)
             => (~ret'.ok /\ wallet' = wallet)
        /\ \A p \in Sessions :
             (/\ pc[p] = "debit" /\ pc'[p] # "debit"
              /\ wallet[call[p].p_sender_wallet_id].balance < call[p].p_amount)
             => (~ret'.ok /\ pc'[p] = "idle" /\ wallet' = wallet
                 /\ dirtyBalance'[p] = NoDirty)]_vars

\* C1 witness: a transfer that passed its funds check was rejected at its
\* debit, because a concurrent transaction had taken the money meanwhile.
C1_Witness ==
  /\ ret.op = "process_payment" /\ ~ret.ok
  /\ ret.sqlerrm = "chk_wallet_balance_non_negative"
  /\ \A w \in Wallets : wallet[w].balance >= 0

\* C2 (as claimed): in every reachable state every wallet's balance is at
\* most its max_balance.
C2_BalanceWithinMax ==
  \A w \in Wallets : wallet[w].balance <= wallet[w].max_balance

\* C3 (as claimed): a call of process_payment, returning normally or with an
\* error, leaves the total balance of every currency as it was.
C3_TransfersConserveTotals ==
  [][(PaymentRaises \/ \E p \in Sessions : PaymentReturns(p))
       => \A c \in Currencies : TotalBalance(c)' = TotalBalance(c)]_vars

\* C4 (as claimed): when a call of process_payment ends, either all of its
\* effects become visible (sender debited, recipient credited, two audit
\* entries, the transaction completed) or no balance and no audit entry changes.
C4_AllOrNothing ==
  [][\A p \in Sessions :
       (pc[p] # "idle" /\ pc'[p] = "idle") =>
         LET s == call[p].p_sender_wallet_id
             r == call[p].p_recipient_wallet_id
             a == call[p].p_amount
             v == call[p].v_transaction_id
         IN \/ /\ wallet'[s].balance = wallet[s].balance - a
               /\ r \in Wallets
               /\ wallet'[r].balance = wallet[r].balance + a
               /\ Cardinality({e \in wallet_audit_log' : e.transaction_id = v}) = 2
               /\ \E t \in transaction' : t.id = v /\ t.status = "completed"
            \/ /\ wallet' = wallet
               /\ wallet_audit_log' = wallet_audit_log]_vars

\* C5 (as claimed): every completed payment has exactly two audit entries
\* referencing it, -amount on the sender wallet and +amount on the recipient.
C5_CompletedHasTwoAuditEntries ==
  \A t \in transaction :
    (t.status = "completed" /\ t.transaction_type = "payment") =>
      /\ Cardinality(AuditEntriesOf(t.id)) = 2
      /\ \E e \in AuditEntriesOf(t.id) :
           e.wallet_id = t.sender_wallet_id /\ e.change_amount = -t.amount
      /\ \E e \in AuditEntriesOf(t.id) :
           e.wallet_id = t.recipient_wallet_id /\ e.change_amount = t.amount

\* The precondition of C6 for a transfer of a from s to r.
C6_Pre(s, r, a) ==
  /\ s \in Wallets /\ r \in Wallets /\ s # r
  /\ wallet[s].status = "active" /\ wallet[r].status = "active"
  /\ wallet[s].currency = wallet[r].currency
  /\ a > 0 /\ wallet[s].balance >= a
  /\ wallet[r].balance + a <= wallet[r].max_balance

\* C6: with calls running one at a time, a transfer of x > 0 from an active
\* wallet A with balance >= x to a distinct active wallet B of the same
\* currency with B.balance + x <= B.max_balance does not fail, and its return
\* takes exactly x from A, adds exactly x to B, leaves every other wallet as
\* it was and adds one transaction, completed, with completed_at set.
C6_TransferSucceeds ==
  [][/\ PaymentRaises => ~C6_Pre(ret'.wallet, ret'.recipient, ret'.amount)
     /\ \A p \in Sessions :
          LET s == call[p].p_sender_wallet_id
              r == call[p].p_recipient_wallet_id
              a == call[p].p_amount
              v == call[p].v_transaction_id
          IN (PaymentReturns(p) /\ C6_Pre(s, r, a)) =>
               /\ ret'.ok
               /\ wallet'[s].balance = wallet[s].balance - a
               /\ wallet'[r].balance = wallet[r].balance + a
               /\ \A w \in Wallets \ {s, r} : wallet'[w] = wallet[w]
               /\ \E t \in transaction' \ transaction :
                    /\ transaction' = transaction \cup {t}
                    /\ t.id = v /\ t.status = "completed"
                    /\ t.completed_at # NULL
                    /\ t.sender_wallet_id = s /\ t.recipient_wallet_id = r
                    /\ t.amount = a]_vars

\* C6 witness: such a transfer has returned normally.
C6_Witness ==
  /\ ret.op = "process_payment" /\ ret.ok
  /\ ret.wallet \in Wallets /\ ret.recipient \in Wallets
  /\ wallet[ret.wallet].currency = wallet[ret.recipient].currency
  /\ wallet[ret.recipient].balance <= wallet[ret.recipient].max_balance
  /\ \E t \in transaction :
       t.id = ret.id /\ t.status = "completed" /\ t.completed_at # NULL

\* C7 (as claimed): after a transfer was refused for insufficient funds, a
\* transaction record of that attempt exists with status failed and a
\* failure_reason.
C7_InsufficientFundsLeavesFailedTransaction ==
  (/\ ret.op = "process_payment" /\ ~ret.ok
   /\ ret.wallet \in Wallets
   /\ ret.sqlerrm = "Solde insuffisant ou portefeuille introuvable.")
  => \E t \in transaction :
       /\ t.sender_wallet_id = ret.wallet /\ t.amount = ret.amount
       /\ t.status = "failed" /\ t.failure_reason # ""

\* C8 (as claimed): after any failed call of process_payment, exactly one
\* FailedTransaction record references the failed transaction of that attempt.
C8_FailedTransferIsRecorded ==
  (ret.op = "process_payment" /\ ~ret.ok)
  => Cardinality({f \in failed_transaction :
                    \E t \in transaction :
                      /\ t.id = f.transaction_id /\ t.status = "failed"
                      /\ t.sender_wallet_id = ret.wallet
                      /\ t.amount = ret.amount}) = 1

\* This step is an INSERT of a key, accepted or refused.
KeyInsertStep ==
  ret'.op = "insert_key" /\ (ret' # ret \/ encryption_key' # encryption_key)

\* C9 (as claimed, from the first active key of a type on): no insertion,
\* update or deletion of a key takes the number of active keys of a type away
\* from exactly 1.
C9_ExactlyOneActiveKeyKept ==
  [][\A t \in KeyTypes :
       Cardinality(ActiveKeys(encryption_key, t)) = 1
         => Cardinality(ActiveKeys(encryption_key', t)) = 1]_vars

\* C10 (as claimed): when a type has one active key K1, inserting a new active
\* key of that type succeeds and stores K2 active with a version above K1's,
\* K1 inactive with rotated_at set, K2 being then the type's active key.
C10_GenerateKeyRotates ==
  [][\A K1 \in encryption_key :
       (/\ KeyInsertStep /\ ret'.active
        /\ ActiveKeys(encryption_key, ret'.key_type) = {K1})
       => /\ ret'.ok
          /\ \E K2 \in encryption_key' :
               /\ K2.id = ret'.id /\ K2.active
               /\ K2.key_version > K1.key_version
               /\ ActiveKeys(encryption_key', ret'.key_type) = {K2}
          /\ \E k \in encryption_key' :
               k.id = K1.id /\ ~k.active /\ k.rotated_at # NULL]_vars

\* This step is an UPDATE of key ret'.id setting active to ret'.active,
\* accepted or refused.
KeyUpdateStep ==
  ret'.op = "update_key" /\ (ret' # ret \/ encryption_key' # encryption_key)

\* C11: an UPDATE taking a key from active to inactive while it is the only
\* active key of its type fails with the error of prevent_key_deactivation
\* and leaves every key row as it was; such an UPDATE is accepted only when
\* another key of the same type is active.
C11_LastActiveKeyNotDeactivated ==
  [][\A k \in encryption_key :
       (KeyUpdateStep /\ ret'.id = k.id /\ k.active /\ ~ret'.active) =>
         /\ ActiveKeys(encryption_key, k.key_type) = {k}
              => /\ ~ret'.ok
                 /\ ret'.sqlerrm = "prevent_key_deactivation"
                 /\ encryption_key' = encryption_key
         /\ ret'.ok => ActiveKeys(encryption_key, k.key_type) \ {k} # {}]_vars

\* C11 witness: the deactivation of a type's only active key was refused, and
\* the key is still active.
C11_Witness ==
  /\ ret.op = "update_key" /\ ~ret.ok /\ ~ret.active
  /\ ret.sqlerrm = "prevent_key_deactivation"
  /\ \E k \in encryption_key :
       k.id = ret.id /\ ActiveKeys(encryption_key, k.key_type) = {k}

\* This step is an INSERT into wallet_audit_log / an UPDATE of column
\* ret'.field of entry ret'.id.
AuditInsertStep == ret'.op = "insert_audit" /\ now' # now
AuditUpdateStep == ret'.op = "update_audit" /\ now' # now

\* The columns the integrity hash is computed from, and the hash itself.
HashedColumns == {"wallet_id", "new_balance", "changed_at"}

\* The entry as stored was hashed from its own wallet_id, new_balance and
\* changed_at.
HashReproduced(e) == EntryHash(e) = e.entry_hash

\* C12 (as claimed): an entry is stored with the hash of its own wallet id,
\* new_balance and timestamp, and an UPDATE that changes any single column of
\* an entry whose hash is reproduced leaves an entry whose recomputed hash
\* differs from the stored one.
C12_AnyFieldTamperChangesHash ==
  [][/\ (AuditInsertStep /\ ret'.ok) =>
          \A e \in wallet_audit_log' : e.id = ret'.id => HashReproduced(e)
     /\ \A e \in wallet_audit_log :
          (/\ AuditUpdateStep /\ ret'.ok /\ ret'.id = e.id
           /\ HashReproduced(e) /\ e \notin wallet_audit_log')
          => \A e2 \in wallet_audit_log' : e2.id = e.id => ~HashReproduced(e2)]_vars

\* C12 (amended): an entry is stored with the hash of its own wallet id,
\* new_balance and timestamp; an UPDATE that changes wallet_id, new_balance,
\* changed_at or entry_hash of an entry whose hash is reproduced leaves an
\* entry whose recomputed hash differs from the stored one, and an UPDATE
\* that changes any other column leaves the hash reproduced.
C12_HashedFieldTamperChangesHash ==
  [][/\ (AuditInsertStep /\ ret'.ok) =>
          \A e \in wallet_audit_log' : e.id = ret'.id => HashReproduced(e)
     /\ \A e \in wallet_audit_log :
          (/\ AuditUpdateStep /\ ret'.ok /\ ret'.id = e.id
           /\ HashReproduced(e) /\ e \notin wallet_audit_log')
          => \A e2 \in wallet_audit_log' :
               e2.id = e.id =>
                 (HashReproduced(e2)
                    <=> ret'.field \notin HashedColumns \cup {"entry_hash"})]_vars

\* C12 witness: new_balance of an entry was changed by an UPDATE and the hash
\* recomputed from the entry is no longer the stored one.
C12_Witness ==
  /\ ret.op = "update_audit" /\ ret.ok /\ ret.field = "new_balance"
  /\ \E e \in wallet_audit_log :
       /\ e.id = ret.id /\ ~HashReproduced(e)
       /\ \E b \in AuditBalances :
            e.entry_hash = EntryHash([e EXCEPT !.new_balance = b])

\* C13 (as claimed): every stored job with total_items > 0 has
\* progress_percentage = floor(processed_items * 100 / total_items), whatever
\* progress_percentage its writers supplied.
C13_ProgressIsFloor ==
  \A j \in batch_processing :
    j.total_items > 0
      => j.progress_percentage = (j.processed_items * 100) \div j.total_items

\* C13 (amended): every stored job with total_items > 0 has
\* progress_percentage = processed_items * 100 / total_items rounded toward
\* zero (the floor when processed_items >= 0), whatever progress_percentage
\* its writers supplied.
C13_ProgressIsTruncatedQuotient ==
  \A j \in batch_processing :
    j.total_items > 0
      => /\ j.progress_percentage
              = IntegerDivide(j.processed_items * 100, j.total_items)
         /\ j.processed_items >= 0
              => j.progress_percentage
                   = (j.processed_items * 100) \div j.total_items

\* C13 witness: an UPDATE of a job was accepted, the job has total_items = 3
\* and processed_items = 2 and its stored progress_percentage is 66.
C13_Witness ==
  /\ ret.op = "update_job" /\ ret.ok
  /\ \E j \in batch_processing :
       /\ j.id = ret.id /\ j.total_items = 3 /\ j.processed_items = 2
       /\ j.progress_percentage = 66

\* This step is a failed run of the running job j.
JobFailsStep(j) ==
  /\ ret'.op = "job_fails" /\ ret'.id = j.id /\ ret'.ok
  /\ j.status = "running" /\ j \notin batch_processing'

\* This step hands job j to a worker.
DispatchStep(j) ==
  /\ ret'.op = "dispatch" /\ ret'.id = j.id
  /\ \E k \in batch_processing' : k.id = j.id /\ k.status = "running"
  /\ j.status # "running"

\* C14: a failed run of a job adds exactly 1 to its retry_count and leaves it
\* retrying with next_retry_at set if retry_count < max_retry, and failed
\* with no next_retry_at otherwise; a failed job stays failed and is never
\* dispatched; a failed job with max_retry = 3 has retry_count = 3.
C14_FailedRunsCountToMaxRetry ==
  /\ [][\A j \in batch_processing :
          /\ JobFailsStep(j) =>
               \E k \in batch_processing' :
                 /\ k.id = j.id /\ k.retry_count = j.retry_count + 1
                 /\ IF k.retry_count < k.max_retry
                      THEN k.status = "retrying" /\ k.next_retry_at # NULL
                           /\ k.next_retry_at > now
                      ELSE k.status = "failed" /\ k.next_retry_at = NULL
          /\ j.status = "failed" =>
               /\ ~DispatchStep(j)
               /\ \E k \in batch_processing' : k.id = j.id /\ k.status = "failed"
       ]_vars
  /\ [](\A j \in batch_processing :
          (j.status = "failed" /\ j.max_retry = 3) => j.retry_count = 3)

\* C14 witness: a job with max_retry = 3 has failed for the third time and is
\* failed with retry_count = 3 and no next_retry_at.
C14_Witness ==
  /\ ret.op = "job_fails"
  /\ \E j \in batch_processing :
       /\ j.id = ret.id /\ j.max_retry = 3 /\ j.retry_count = 3
       /\ j.status = "failed" /\ j.next_retry_at = NULL

\* C15 (as claimed): two transfers on the same wallets in opposite directions
\* never deadlock: there is no state in which each of them holds the row lock
\* the other one's next UPDATE waits for.
C15_NoDeadlock == \A p \in Sessions : ~Deadlocked(p)

\* C16 (as claimed): transfers that debit the same wallet are serialized: a
\* transfer that has passed its funds check while another transfer from the
\* same wallet was under way goes on to debit the sender once that one has
\* completed; its debit is not refused for a balance the other one spent
\* after the check.
C16_CheckedDebitSucceeds ==
  [][\A p \in Sessions :
       (/\ pc[p] = "debit"
        /\ ret.op = "process_payment" /\ ret.ok
        /\ ret.wallet = call[p].p_sender_wallet_id
        /\ \A q \in Sessions \ {p} : pc[q] = "idle")
       => \/ pc'[p] = "debit"
          \/ /\ pc'[p] = "credit"
             /\ dirtyBalance'[p][call[p].p_sender_wallet_id]
                  = wallet[call[p].p_sender_wallet_id].balance
                    - call[p].p_amount]_vars

\* The requested currency is the currency of both wallets of the call.
CurrenciesMatch(args) ==
  /\ args.p_sender_wallet_id \in DOMAIN wallet
       => wallet[args.p_sender_wallet_id].currency = args.p_currency
  /\ args.p_recipient_wallet_id \in DOMAIN wallet
       => wallet[args.p_recipient_wallet_id].currency = args.p_currency

\* C17 (as claimed): a call of process_payment whose requested currency
\* differs from the sender wallet's or the recipient wallet's currency is
\* rejected: it never returns normally, and when it ends no balance, audit
\* entry or transaction has changed.
C17_CurrencyMismatchRejected ==
  [][\A p \in Sessions :
       (pc[p] # "idle" /\ pc'[p] = "idle" /\ ~CurrenciesMatch(call[p]))
       => /\ ~ret'.ok
          /\ wallet' = wallet
          /\ wallet_audit_log' = wallet_audit_log
          /\ transaction' = transaction]_vars

\* Both wallets of the call (those that exist) are active.
WalletsActive(args) ==
  /\ args.p_sender_wallet_id \in DOMAIN wallet
       => wallet[args.p_sender_wallet_id].status = "active"
  /\ args.p_recipient_wallet_id \in DOMAIN wallet
       => wallet[args.p_recipient_wallet_id].status = "active"

\* C18 (as claimed): a call of process_payment in which the sender wallet or
\* the recipient wallet is not active is rejected and changes no balance: in
\* particular its debit of a sender that is not active is refused.
C18_InactiveWalletRejected ==
  [][\A p \in Sessions :
       (pc[p] # "idle" /\ pc'[p] = "idle" /\ ~WalletsActive(call[p]))
       => (~ret'.ok /\ wallet' = wallet)]_vars

\* C19 (as claimed): a transaction has completed_at unset exactly while its
\* status is not terminal, and once completed_at is set no later update of
\* the transaction changes it.
C19_CompletedAtSetOnce ==
  /\ [](\A t \in transaction \cup UNION {dirtyTx[p] : p \in Sessions} :
          t.status \in TerminalStatus <=> t.completed_at # NULL)
  /\ [][\A t \in transaction : \A u \in transaction' :
          (u.id = t.id /\ t.completed_at # NULL)
          => u.completed_at = t.completed_at]_vars

\* C20 (as claimed): audit entries are append-only: every entry of the log
\* is in the log, unchanged, after any statement, so the set of entries only
\* grows.
C20_AuditLogAppendOnly ==
  [][\A e \in wallet_audit_log : e \in wallet_audit_log']_vars

\* C21 (as claimed): a FailedTransaction's resolved_at is stamped when its
\* resolution_status first becomes resolved, and once set it is never changed
\* by a later update of resolution_status, also one that enters resolved again.
C21_ResolvedAtStampedOnce ==
  [][\A f \in failed_transaction : \A g \in failed_transaction' :
       g.id = f.id =>
         /\ (f.resolved_at = NULL /\ f.resolution_status # "resolved"
             /\ g.resolution_status = "resolved") => g.resolved_at = now
         /\ f.resolved_at # NULL => g.resolved_at = f.resolved_at]_vars

\* This step is a call of log_failed_transaction with p_transaction_id =
\* ret'.id, returning normally or with an error.
LogFailedStep == ret'.op = "log_failed_transaction" /\ now' # now /\ pc' = pc

\* C22 (as claimed): recording a failed transaction succeeds, adding one
\* FailedTransaction row, when the transaction id is omitted or names an
\* existing transaction; when the id names no transaction it is rejected with
\* 'Transaction invalide', writes no FailedTransaction row and changes no
\* transaction.
C22_RecordingChecksReference ==
  [][LogFailedStep =>
       IF ret'.id = NULL \/ \E t \in transaction : t.id = ret'.id
         THEN /\ ret'.ok
              /\ \E f \in failed_transaction' \ failed_transaction :
                   /\ f.transaction_id = ret'.id
                   /\ failed_transaction' = failed_transaction \cup {f}
         ELSE /\ ~ret'.ok /\ ret'.sqlerrm = "Transaction invalide"
              /\ failed_transaction' = failed_transaction
              /\ transaction' = transaction]_vars

\* C23 (as claimed): in every reachable state each owner has at most one
\* wallet with is_primary = TRUE, and a statement that sets is_primary on one
\* wallet leaves it FALSE on all of that owner's other wallets.
C23_OnePrimaryPerOwner ==
  /\ [](\A w1, w2 \in DOMAIN wallet :
          (/\ wallet[w1].user_id = wallet[w2].user_id
           /\ wallet[w1].is_primary /\ wallet[w2].is_primary) => w1 = w2)
  /\ [][\A w \in DOMAIN wallet :
          (~wallet[w].is_primary /\ wallet'[w].is_primary) =>
            \A x \in DOMAIN wallet' \ {w} :
              wallet'[x].user_id = wallet'[w].user_id => ~wallet'[x].is_primary]_vars

\* The wallets of owner and currency cur that are not soft-deleted.
LiveWallets(owner, cur) ==
  {w \in DOMAIN wallet : /\ wallet[w].user_id = owner /\ wallet[w].currency = cur
                         /\ wallet[w].deleted_at = NULL}

\* This step opens a wallet for ret'.owner in ret'.currency, or fails to.
OpenWalletStep ==
  ret'.op = "open_wallet" /\ (ret' # ret \/ wallet' # wallet)

\* C29 (as claimed): in every reachable state there is at most one wallet that
\* is not soft-deleted per owner and currency, and opening a wallet for an
\* existing owner fails exactly when a wallet that is not soft-deleted exists
\* for that owner and currency: a soft-deleted wallet does not block it.
C29_OneLiveWalletPerOwnerCurrency ==
  /\ [](\A owner \in user, cur \in Currencies :
          Cardinality(LiveWallets(owner, cur)) <= 1)
  /\ [][(OpenWalletStep /\ ret'.owner \in user) =>
          (~ret'.ok <=> LiveWallets(ret'.owner, ret'.currency) # {})]_vars

\* This step is a call of cancel on job j, accepted or refused.
CancelStep(j) ==
  /\ ret'.op = "cancel" /\ ret'.id = j.id
  /\ ret' # ret \/ batch_processing' # batch_processing

\* Job j as the step leaves it.
JobAfter(j) == CHOOSE k \in batch_processing' : k.id = j.id

WaitingStatus == {"pending", "retrying"}

\* C24: a job becomes cancelled only from pending or retrying, and only by a
\* cancel of itself or of its parent; a cancel of a pending or retrying job
\* cancels it and each of its children that is pending or retrying and
\* changes no other job; a cancel of any other job is refused and changes
\* nothing; a running job stays running until its own run ends it as
\* completed, failed or retrying.
C24_CancelOnlyWhileWaiting ==
  [][\A j \in batch_processing :
          /\ \E k \in batch_processing' : k.id = j.id
          /\ (JobAfter(j).status = "cancelled" /\ j.status # "cancelled") =>
               /\ j.status \in WaitingStatus
               /\ ret'.op = "cancel" /\ ret'.ok
               /\ ret'.id = j.id \/ ret'.id = j.parent_job_id
          /\ (CancelStep(j) /\ j.status \in WaitingStatus) =>
               /\ ret'.ok
               /\ JobAfter(j).status = "cancelled"
               /\ \A c \in batch_processing :
                    IF c.parent_job_id = j.id /\ c.status \in WaitingStatus
                      THEN JobAfter(c) = [c EXCEPT !.status = "cancelled"]
                      ELSE c.id # j.id => JobAfter(c) = c
          /\ (CancelStep(j) /\ j.status \notin WaitingStatus) =>
               (~ret'.ok /\ batch_processing' = batch_processing)
          /\ j.status = "running" =>
               /\ JobAfter(j).status \in {"running", "completed", "failed", "retrying"}
               /\ JobAfter(j).status # "running" =>
                    (ret'.op \in {"job_succeeds", "job_fails"} /\ ret'.id = j.id)
       ]_vars

\* C24 witness: a cancel of a parent job was accepted, and the parent and a
\* child of it that had failed once (and so was retrying) are cancelled.
C24_Witness ==
  /\ ret.op = "cancel" /\ ret.ok
  /\ \E j, c \in batch_processing :
       /\ j.id = ret.id /\ j.status = "cancelled"
       /\ c.parent_job_id = j.id /\ c.status = "cancelled" /\ c.retry_count = 1

\* This step is the end of a successful run of the running job j.
JobSucceedsStep(j) ==
  /\ ret'.op = "job_succeeds" /\ ret'.id = j.id /\ j.status = "running"
  /\ ret' # ret \/ batch_processing' # batch_processing

\* C25 (as claimed): when the run of a job succeeds the job is stored with
\* status completed, completed_at set and progress_percentage = 100, whatever
\* its processed_items and total_items are; and progress_percentage is within
\* [0,100] in every reachable state.
C25_SuccessForcesFullProgress ==
  /\ [](\A j \in batch_processing :
          j.progress_percentage >= 0 /\ j.progress_percentage <= 100)
  /\ [][\A j \in batch_processing :
          JobSucceedsStep(j) =>
            /\ JobAfter(j).status = "completed"
            /\ JobAfter(j).completed_at # NULL
            /\ JobAfter(j).progress_percentage = 100]_vars

\* C26 (as claimed, for the transfers between two wallets): once a
\* transaction's status is terminal, no later operation changes its status,
\* amount or wallet references: a call of log_failed_transaction naming a
\* completed transaction leaves it completed.
C26_TerminalTransactionImmutable ==
  [][\A t \in transaction :
       (/\ t.status \in TerminalStatus
        /\ t.sender_wallet_id \in Wallets /\ t.recipient_wallet_id \in Wallets) =>
         \E u \in transaction' :
           /\ u.id = t.id /\ u.status = t.status /\ u.amount = t.amount
           /\ u.sender_wallet_id = t.sender_wallet_id
           /\ u.recipient_wallet_id = t.recipient_wallet_id]_vars

\* The wallet references the claim gives each type: a deposit has a recipient
\* and no sender, a withdrawal a sender and no recipient, a payment or a
\* transfer both.
WalletsFitType(t) ==
  /\ t.transaction_type = "deposit"
       => (t.recipient_wallet_id # NULL /\ t.sender_wallet_id = NULL)
  /\ t.transaction_type = "withdrawal"
       => (t.sender_wallet_id # NULL /\ t.recipient_wallet_id = NULL)
  /\ t.transaction_type \in {"payment", "transfer"}
       => (t.sender_wallet_id # NULL /\ t.recipient_wallet_id # NULL)

\* C27 (as claimed): every stored transaction has a sender different from its
\* recipient and the wallet references of its type.
C27_WalletReferencesFitType ==
  \A t \in transaction :
    t.sender_wallet_id # t.recipient_wallet_id /\ WalletsFitType(t)

\* This step is a call of escalate on the failed transaction f, accepted or
\* refused.
EscalateStep(f) ==
  /\ ret'.op = "escalate" /\ ret'.id = f.id
  /\ ret' # ret \/ failed_transaction' # failed_transaction

\* C28: escalation_level is within [0,5] in every reachable state; escalate
\* on a failed transaction below level 5 is accepted and adds exactly 1 to its
\* level, changing nothing else; escalate at level 5 is refused with the
\* error of chk_failed_transaction_escalation_level and leaves the level at 5.
C28_EscalationWithinRange ==
  /\ [](\A f \in failed_transaction :
          f.escalation_level >= 0 /\ f.escalation_level <= 5)
  /\ [][\A f \in failed_transaction :
          EscalateStep(f) =>
            IF f.escalation_level < 5
              THEN /\ ret'.ok
                   /\ failed_transaction' =
                        (failed_transaction \ {f}) \cup
                          {[f EXCEPT !.escalation_level = f.escalation_level + 1]}
              ELSE /\ ~ret'.ok
                   /\ ret'.sqlerrm = "chk_failed_transaction_escalation_level"
                   /\ failed_transaction' = failed_transaction]_vars

\* C28 witness: escalate was refused on a failed transaction at level 5, which
\* is still at level 5.
C28_Witness ==
  /\ ret.op = "escalate" /\ ~ret.ok
  /\ ret.sqlerrm = "chk_failed_transaction_escalation_level"
  /\ \E f \in failed_transaction : f.id = ret.id /\ f.escalation_level = 5

\* C30 (as claimed): a call of process_payment whose recipient id matches no
\* wallet, or is missing, fails and changes no balance; a call that returns
\* having debited its sender has credited one existing recipient wallet by
\* the same amount.
C30_NoDebitWithoutRecipient ==
  [][\A p \in Sessions :
       LET s == call[p].p_sender_wallet_id
           r == call[p].p_recipient_wallet_id
           a == call[p].p_amount
       IN /\ (pc[p] # "idle" /\ pc'[p] = "idle" /\ r \notin DOMAIN wallet)
               => (~ret'.ok /\ wallet' = wallet)
          /\ (PaymentReturns(p) /\ wallet'[s].balance < wallet[s].balance)
               => /\ r \in DOMAIN wallet
                  /\ wallet'[r].balance = wallet[r].balance + a]_vars

====
